---- MODULE Spec2Model ----
(***************************************************************************)
(* Washer monitoring worker: the scheduled handler that polls a SwitchBot  *)
(* Plug Mini, derives the wattage, detects Idle<->Running transitions      *)
(* against the status stored in Workers KV, and posts a Discord            *)
(* notification on each transition.                                        *)
(*                                                                         *)
(* The repository holds four scheduled handlers:                           *)
(*   "p000b"  src/unnamed/part_000 lines 200-350 (sequential notify, put)  *)
(*   "p000a"  src/unnamed/part_000 lines 1-198   (Promise.all)             *)
(*   "index"  src/src/index.ts                   (Promise.all, ?? "0")     *)
(*   "p001"   src/unnamed/part_001  (Secrets Store, threshold, allSettled) *)
(* The variable handler says which one is deployed.                        *)
(*                                                                         *)
(* Numbers: voltage is in volts and electricCurrent in milliamps, both     *)
(* integers here; the code's watt = voltage * (electricCurrent / 1000) is  *)
(* kept as milliwatts (voltage * electricCurrent), and a comparison        *)
(* watt >= T is mW >= 1000 * T.  Strings that the code parses are          *)
(* sequences of one-character strings.                                     *)
(*                                                                         *)
(* Specifications: Spec (serial ticks, every input), SpecOverlap (two      *)
(* invocations may overlap), SpecLive (serial ticks with fairness, polls   *)
(* that settle on one side of the threshold).                              *)
(***************************************************************************)
EXTENDS Integers, Sequences, FiniteSets, TLC

VARIABLES
  handler,       \* the deployed scheduled handler
  thresholdEnv,  \* env.WASHER_START_THRESHOLD: Absent or Str(text)
  store,         \* KV value under key "status": NoValue, "0" or "1"
  tick,          \* per invocation slot: the state of the running tick
  seen,          \* history: the valid readings evaluated so far
  dispatched,    \* history: per edge, the ticks that called the dispatcher (saturating)
  writes,        \* history: store writes issued by the ticks (saturating)
  putFailed,     \* history: some store write was rejected
  overlapped,    \* history: some tick began while another had not finished
  lastEdge,      \* history: the edge of the notification dispatched last
  phase          \* the plug and the store: "any" (anything can happen), or settled
                 \* on "high" / "low" (polls succeed on one side of the threshold
                 \* and store operations succeed)

vars ==
  <<handler, thresholdEnv, store, tick, seen, dispatched, writes, putFailed,
    overlapped, lastEdge, phase>>

----------------------------------------------------------------------------
(* Bounds of the model *)

\* the webhook answers 429 to a POST of a tick only while the tick's
\* notification has been POSTed at most this many times
Max429 == 2

----------------------------------------------------------------------------
(* Program constants *)

DefaultThreshold == 5
StatusOk == 100
StatusFailed == -1
MsPerSecond == 1000
MilliampsPerAmp == 1000

Handlers == {"p000b", "p000a", "index", "p001"}

\* an optional string (an env var, a response header): absent, or present with text
Absent == [present |-> FALSE, text |-> <<>>]
Str(t) == [present |-> TRUE, text |-> t]

\* a JavaScript number as far as the code needs it: NaN or an integer
NaN == [nan |-> TRUE, val |-> 0]
Num(v) == [nan |-> FALSE, val |-> v]

\* KVNamespace.get of a key never written
NoValue == "null"

Idle == "0"
Running == "1"

StartMessage == "start"
FinishedMessage == "finished"

----------------------------------------------------------------------------
(* parseInt(str, 10) *)

DigitChars == <<"0", "1", "2", "3", "4", "5", "6", "7", "8", "9">>

IsDigit(c) == \E i \in 1..10 : DigitChars[i] = c

DigitVal(c) == (CHOOSE i \in 1..10 : DigitChars[i] = c) - 1

RECURSIVE SkipSpaces(_)
SkipSpaces(s) ==
  IF s # <<>> /\ Head(s) = " " THEN SkipSpaces(Tail(s)) ELSE s

RECURSIVE DigitsValue(_, _)
DigitsValue(s, acc) ==
  IF s # <<>> /\ IsDigit(Head(s))
    THEN DigitsValue(Tail(s), 10 * acc + DigitVal(Head(s)))
    ELSE acc

\* leading white space is skipped, an optional sign is read, then the longest
\* prefix of digits; no digit at all gives NaN; what follows the digits is ignored
ParseInt(str) ==
  LET t == SkipSpaces(str)
      neg == t # <<>> /\ Head(t) = "-"
      u == IF t # <<>> /\ Head(t) \in {"-", "+"} THEN Tail(t) ELSE t
  IN IF u = <<>> \/ ~IsDigit(Head(u))
       THEN NaN
       ELSE IF neg THEN Num(0 - DigitsValue(u, 0)) ELSE Num(DigitsValue(u, 0))

----------------------------------------------------------------------------
(* What the outside world can supply *)

\* env.WASHER_START_THRESHOLD: unset, "", "a", "7", "3W"
ThresholdEnvs ==
  {Absent, Str(<<>>), Str(<<"a">>), Str(<<"7">>), Str(<<"3", "W">>)}

\* Retry-After of a 429 response: no header, "2", "x"
RetryAfterHeaders == {Absent, Str(<<"2">>), Str(<<"x">>)}

\* plug readings (volts, milliamps): 0 W, 0.5 W, 4 W, 5 W, 8 W
Readings ==
  { [voltage |-> 0, current |-> 80], [voltage |-> 100, current |-> 5],
    [voltage |-> 100, current |-> 40],
    [voltage |-> 100, current |-> 50], [voltage |-> 100, current |-> 80] }

NoReading == [voltage |-> 0, current |-> 0]

\* a response to the device-status GET.  kind "exception": fetch itself throws.
\* body "text": not JSON; "nofields": JSON without statusCode and body;
\* "nobody": JSON with statusCode but no body object; "full": the documented shape.
Resp(kind, ok, body, sc, r) ==
  [kind |-> kind, ok |-> ok, body |-> body, statusCode |-> sc, reading |-> r]

Responses ==
  { Resp("exception", FALSE, "text", 0, NoReading),
    Resp("http", FALSE, "text", 0, NoReading),
    Resp("http", FALSE, "nofields", 0, NoReading),
    Resp("http", FALSE, "full", StatusOk, [voltage |-> 100, current |-> 80]),
    Resp("http", TRUE, "text", 0, NoReading),
    Resp("http", TRUE, "nofields", 0, NoReading),
    Resp("http", TRUE, "nobody", StatusOk, NoReading),
    Resp("http", TRUE, "full", 190, [voltage |-> 100, current |-> 80]) }
  \cup { Resp("http", TRUE, "full", StatusOk, r) : r \in Readings }

\* outcomes of the notification POST
PostOutcomes == {"ok", "429", "error", "exception"}

----------------------------------------------------------------------------
(* What distinguishes the four handlers *)

\* the status client wraps fetch and json() in try/catch
ClientCatches(h) == h # "p000b"

\* the dispatcher wraps fetch in try/catch
DispatcherCatches(h) == h # "p000b"

\* on 429 the dispatcher arms setTimeout to call itself again
HasRetryTimer(h) == h \in {"p000b", "p001"}

\* credentials come from the Secrets Store and are checked
UsesSecretsStore(h) == h = "p001"

\* get("status") ?? "0"
DefaultsIdle(h) == h \in {"index", "p001"}

\* how notification and store write are combined:
\* "sequential" (await notify; await put), "all" (Promise.all),
\* "allSettled" (Promise.allSettled)
Combine(h) ==
  CASE h = "p000b" -> "sequential"
    [] h \in {"p000a", "index"} -> "all"
    [] OTHER -> "allSettled"

----------------------------------------------------------------------------
(* fetchPlugMiniStatus / fetchFromSwitchBotPlugMiniStatus *)

\* the failure sentinel returned from the catch block
FailureResult ==
  [threw |-> FALSE, statusCode |-> StatusFailed, hasBody |-> TRUE,
   reading |-> NoReading]

Thrown ==
  [threw |-> TRUE, statusCode |-> 0, hasBody |-> FALSE, reading |-> NoReading]

\* response.json(): the parsed value; statusCode 0 stands for undefined
Parsed(resp) ==
  [threw |-> FALSE,
   statusCode |-> IF resp.body = "nofields" THEN 0 ELSE resp.statusCode,
   hasBody |-> resp.body = "full",
   reading |-> resp.reading]

\* with try/catch: an exception, a non-ok status or an unparsable body
\* gives the sentinel
FetchCaught(resp) ==
  IF resp.kind = "exception" \/ ~resp.ok \/ resp.body = "text"
    THEN FailureResult
    ELSE Parsed(resp)

\* without try/catch (and without the ok check): exceptions propagate
FetchUncaught(resp) ==
  IF resp.kind = "exception" \/ resp.body = "text" THEN Thrown ELSE Parsed(resp)

FetchStatus(h, resp) ==
  IF ClientCatches(h) THEN FetchCaught(resp) ELSE FetchUncaught(resp)

----------------------------------------------------------------------------
(* The evaluator *)

\* watt = voltage * (electricCurrent / 1000), kept in milliwatts
MilliWatt(r) == r.voltage * r.current

\* const val = parseInt(env.WASHER_START_THRESHOLD ?? "5", 10);
\* return isNaN(val) ? 5 : val
EffectiveThreshold(env) ==
  LET val == IF env.present THEN ParseInt(env.text) ELSE Num(DefaultThreshold)
  IN IF val.nan THEN DefaultThreshold ELSE val.val

\* a slip of the start comparison: > for >=
StartsAboveThreshold(cur, mw, t) == cur = Idle /\ mw > MilliampsPerAmp * t

\* a slip of the start condition: the status read from the store is not looked at
StartsAtThresholdAnyStatus(cur, mw, t) == mw >= MilliampsPerAmp * t

\* currentStatus === "0" && watt >= WASHER_START_THRESHOLD
StartsAtThreshold(cur, mw, t) == cur = Idle /\ mw >= MilliampsPerAmp * t

\* a slip of the stop comparison: <= for <
StopsAtOrBelowThreshold(cur, mw, t) == cur = Running /\ mw <= MilliampsPerAmp * t

\* currentStatus === "1" && watt < WASHER_START_THRESHOLD
StopsAtThreshold(cur, mw, t) == cur = Running /\ mw < MilliampsPerAmp * t

\* a slip of the start condition: the status read from the store is not looked at
StartsFixedAnyStatus(cur, mw) == mw > 0

\* current_status === "0" && wat > 0
StartsFixed(cur, mw) == cur = Idle /\ mw > 0

\* current_status === "1" && wat < 1
StopsFixed(cur, mw) == cur = Running /\ mw < MilliampsPerAmp

\* a slip of the conditions: the edge is decided by the watt alone, without the
\* status read from the store
DecideByWattOnly(h, cur, mw, t) ==
  IF h = "p001"
    THEN IF mw >= MilliampsPerAmp * t THEN "start" ELSE "stop"
    ELSE IF mw > 0 THEN "start" ELSE "stop"

\* the if / else if of the handler: which edge the tick takes
Decide(h, cur, mw, t) ==
  IF h = "p001"
    THEN IF StartsAtThreshold(cur, mw, t) THEN "start"
         ELSE IF StopsAtThreshold(cur, mw, t) THEN "stop" ELSE "none"
    ELSE IF StartsFixed(cur, mw) THEN "start"
         ELSE IF StopsFixed(cur, mw) THEN "stop" ELSE "none"

\* a slip of the read: the `?? "0"` is missing
CurrentStatusRaw(h, value) == value

\* the status the tick compares: the stored value, or "0" for none
CurrentStatus(h, value) ==
  IF DefaultsIdle(h) /\ value = NoValue THEN Idle ELSE value

\* a slip of the status handed to put: the state left instead of the state entered
NextStatusSwapped(edge) == IF edge = "start" THEN Idle ELSE Running

\* handleStatusChange("1", <start text>) on the start edge,
\* handleStatusChange("0", <finished text>) on the stop edge
NextStatus(edge) == IF edge = "start" THEN Running ELSE Idle

Message(edge) == IF edge = "start" THEN StartMessage ELSE FinishedMessage

\* waitTime = retryAfter ? parseInt(retryAfter, 10) * 1000 : 1000
WaitTime(header) ==
  IF header.present /\ header.text # <<>>
    THEN LET n == ParseInt(header.text)
         IN IF n.nan THEN NaN ELSE Num(n.val * MsPerSecond)
    ELSE Num(MsPerSecond)

----------------------------------------------------------------------------
(* One invocation of the scheduled handler *)

\* invocation slots; ticks of Spec are serial and use the first only
Slots == {1, 2}
SerialSlots == {1}

NoResp == Resp("none", FALSE, "text", 0, NoReading)

\* pc: "idle" before the first tick; "sign", "read", "effects" while the handler
\*     runs; "done" once its promise is fulfilled, "rejected" once it is rejected
\* tok, sec, prx: what the token, the secret and the relay secret turned out to
\*     be: "ok", "empty" (unset or ""), "throw" (SecretsStoreSecret.get rejects)
\* before: the stored value when the tick began
\* gets: GETs of the device status issued; resp: the response to the GET
\* getFailed: KV get rejected; cur: currentStatus; edge: the edge taken
\* msg: the content POSTed; value: the status handed to put
\* post, put: "none", "flight" or the outcome of the handler's own POST / put
\* timer: "none", "armed" (setTimeout pending), "flight" (the retry's POST is out)
\* retryAfter: the Retry-After header of the 429 that armed the timer
\* delay: the waitTime given to the armed setTimeout
\* chain: POSTs issued for the tick's notification, retries included
\* late: a retry POST was issued after the handler had completed
FreshTick ==
  [pc |-> "idle", tok |-> "ok", sec |-> "ok", prx |-> "ok",
   before |-> NoValue, gets |-> 0,
   resp |-> NoResp, getFailed |-> FALSE, cur |-> NoValue, edge |-> "none",
   msg |-> "", value |-> NoValue,
   post |-> "none", put |-> "none", timer |-> "none",
   retryAfter |-> Absent, delay |-> Num(0),
   chain |-> 0, late |-> FALSE]

Ended(t) == t.pc \in {"done", "rejected"}

\* the history counters count 0, 1, "2 or more"
Sat(n) == IF n < 2 THEN n + 1 ELSE 2

Init ==
  /\ handler \in Handlers
  /\ thresholdEnv \in (IF handler = "p001" THEN ThresholdEnvs ELSE {Absent})
  /\ store \in {NoValue, Idle, Running}
  /\ tick = [s \in Slots |-> FreshTick]
  /\ seen = {}
  /\ dispatched = [e \in {"start", "stop"} |-> 0]
  /\ writes = 0
  /\ putFailed = FALSE
  /\ overlapped = FALSE
  /\ lastEdge = "none"
  /\ phase = "any"

\* what the credentials can be: the three Secrets Store secrets each present,
\* empty or failing to load; for the other handlers env.SWITCH_BOT_TOKEN set or
\* not (there is no relay secret, and the secret is taken as set)
CredInputs(h) ==
  IF UsesSecretsStore(h)
    THEN {"ok", "empty", "throw"} \X {"ok", "empty", "throw"} \X {"ok", "empty", "throw"}
    ELSE {"ok", "empty"} \X {"ok"} \X {"ok"}

\* the start of scheduled(): where the handler stands after the credentials.
\* The Secrets Store handler awaits the three get() calls (a rejection rejects
\* the handler) and returns when one is falsy; the others check nothing.
AfterCredentials(h, tok, sec, prx) ==
  IF UsesSecretsStore(h)
    THEN IF "throw" \in {tok, sec, prx} THEN "rejected"
         ELSE IF "empty" \in {tok, sec, prx} THEN "done"
         ELSE "sign"
    ELSE "sign"

\* the invocation of a slot has completed and what it left behind (a POST still
\* in flight, a retry timer) has been resolved
Free(t) ==
  /\ t.pc \in {"idle", "done", "rejected"}
  /\ t.timer = "none"
  /\ t.post # "flight"

\* Ticks of a slot are serial: the scheduler invokes the handler again in a
\* free slot, with credentials among creds; the tick overlaps when the
\* invocation of another slot is not over.
BeginTickWith(s, creds) ==
  /\ Free(tick[s])
  /\ \E c \in creds :
       tick' = [tick EXCEPT ![s] =
                  [FreshTick EXCEPT !.tok = c[1], !.sec = c[2], !.prx = c[3],
                                    !.before = store,
                                    !.pc = AfterCredentials(handler, c[1], c[2], c[3])]]
  /\ overlapped' = (overlapped \/ \E o \in Slots \ {s} : ~Free(tick[o]))
  /\ UNCHANGED <<handler, thresholdEnv, store, seen, dispatched, writes, putFailed,
                 lastEdge, phase>>

BeginTick(s) == BeginTickWith(s, CredInputs(handler))

\* a slip of the status check: only the sentinel counts as "no reading"
AfterFetchSentinelOnly(res) ==
  IF res.threw THEN "rejected"
  ELSE IF res.statusCode = StatusFailed THEN "done"
  ELSE IF ~res.hasBody THEN "rejected"
  ELSE "read"

\* where the handler stands once it holds the client's result res
AfterFetch(res) ==
  IF res.threw THEN "rejected"
  ELSE IF res.statusCode # StatusOk THEN "done"
  ELSE IF ~res.hasBody THEN "rejected"
  ELSE "read"

\* generateSignature, the single GET, and `if (res.statusCode === 100)` with the
\* watt computation (res.body.voltage of a missing body is a TypeError)
FetchWith(s, resps) ==
  /\ tick[s].pc = "sign"
  /\ \E resp \in resps :
       LET res == FetchStatus(handler, resp)
           to == AfterFetch(res)
       IN /\ tick' = [tick EXCEPT ![s].gets = @ + 1, ![s].resp = resp, ![s].pc = to]
          /\ seen' = IF to = "read" THEN seen \cup {res.reading} ELSE seen
  /\ UNCHANGED <<handler, thresholdEnv, store, dispatched, writes, putFailed, overlapped, lastEdge, phase>>

Fetch(s) == FetchWith(s, Responses)

\* the result of the client as the handler of the slot saw it
ResultOf(t) == FetchStatus(handler, t.resp)

\* await KV.get("status"), the decision, and the start of both side effects
ReadStoreWith(s, oks) ==
  /\ tick[s].pc = "read"
  /\ \E ok \in oks :
       IF ~ok
         THEN /\ tick' = [tick EXCEPT ![s].getFailed = TRUE, ![s].pc = "rejected"]
              /\ UNCHANGED <<dispatched, writes, lastEdge>>
         ELSE LET cur == CurrentStatus(handler, store)
                  edge == Decide(handler, cur, MilliWatt(ResultOf(tick[s]).reading),
                                 EffectiveThreshold(thresholdEnv))
                  both == Combine(handler) # "sequential"
              IN IF edge = "none"
                   THEN /\ tick' = [tick EXCEPT ![s].cur = cur, ![s].pc = "done"]
                        /\ UNCHANGED <<dispatched, writes, lastEdge>>
                   ELSE /\ tick' = [tick EXCEPT ![s].cur = cur, ![s].edge = edge,
                                      ![s].msg = Message(edge),
                                      ![s].value = NextStatus(edge),
                                      ![s].pc = "effects", ![s].post = "flight",
                                      ![s].chain = 1,
                                      ![s].put = IF both THEN "flight" ELSE "none"]
                        /\ dispatched' = [dispatched EXCEPT ![edge] = Sat(@)]
                        /\ writes' = IF both THEN Sat(writes) ELSE writes
                        /\ lastEdge' = edge
  /\ UNCHANGED <<handler, thresholdEnv, store, seen, putFailed, overlapped, phase>>

ReadStore(s) == ReadStoreWith(s, BOOLEAN)

\* the dispatcher's promise rejects: only a dispatcher without try/catch, on a
\* transport exception
DispatcherRejects(h, post) == post = "exception" /\ ~DispatcherCatches(h)

\* await notify; await put: the put starts once the notification has returned
JoinSequential(h, t) ==
  IF t.post = "flight" THEN t
  ELSE IF DispatcherRejects(h, t.post) THEN [t EXCEPT !.pc = "rejected"]
  ELSE IF t.put = "none" THEN [t EXCEPT !.put = "flight"]
  ELSE IF t.put = "flight" THEN t
  ELSE [t EXCEPT !.pc = IF t.put = "ok" THEN "done" ELSE "rejected"]

\* await Promise.all([notify, put]): rejects with the first rejection,
\* fulfils when both are fulfilled
JoinAll(h, t) ==
  IF t.put = "fail" \/ DispatcherRejects(h, t.post)
    THEN [t EXCEPT !.pc = "rejected"]
  ELSE IF t.post # "flight" /\ t.put = "ok" THEN [t EXCEPT !.pc = "done"]
  ELSE t

\* a slip of the combination: the handler goes on once the notification has
\* returned and leaves the put behind
JoinPostOnly(h, t) ==
  IF t.post # "flight" THEN [t EXCEPT !.pc = "done"] ELSE t

\* await Promise.allSettled([notify, put]): fulfils when both have settled;
\* a rejection is logged
JoinAllSettled(h, t) ==
  IF t.post # "flight" /\ t.put # "flight" THEN [t EXCEPT !.pc = "done"] ELSE t

\* the handler after one of its two side effects has settled
Join(h, t) ==
  IF t.pc # "effects" THEN t
  ELSE CASE Combine(h) = "sequential" -> JoinSequential(h, t)
         [] Combine(h) = "all" -> JoinAll(h, t)
         [] OTHER -> JoinAllSettled(h, t)

\* the dispatcher on a response: on 429 a handler with the retry timer arms
\* setTimeout(() => sendDiscordNotification(...), waitTime) and returns
OnPostResponse(h, t, o, hdr) ==
  LET arm == o = "429" /\ HasRetryTimer(h)
  IN [t EXCEPT !.timer = IF arm THEN "armed" ELSE "none",
               !.retryAfter = IF arm THEN hdr ELSE Absent,
               !.delay = IF arm THEN WaitTime(hdr) ELSE Num(0)]

\* the webhook (or the relay) answers the handler's own POST
PostSettleWith(s, outcomes) ==
  /\ tick[s].post = "flight"
  /\ \E o \in outcomes, hdr \in RetryAfterHeaders :
       /\ o = "429" => tick[s].chain <= Max429
       /\ o # "429" => hdr = Absent
       /\ tick' = [tick EXCEPT ![s] =
                     Join(handler, [OnPostResponse(handler, tick[s], o, hdr)
                                      EXCEPT !.post = o])]
  /\ writes' = IF tick[s].put = "none" /\ tick'[s].put = "flight"
                 THEN Sat(writes) ELSE writes
  /\ UNCHANGED <<handler, thresholdEnv, store, seen, dispatched, putFailed, overlapped, lastEdge, phase>>

PostSettle(s) == PostSettleWith(s, PostOutcomes)

\* KV.put("status", nextStatus) settles: the value is stored, or the put rejects
PutSettleWith(s, oks) ==
  /\ tick[s].put = "flight"
  /\ \E ok \in oks :
       /\ tick' = [tick EXCEPT ![s] =
                     Join(handler, [tick[s] EXCEPT !.put = IF ok THEN "ok" ELSE "fail"])]
       /\ store' = IF ok THEN tick[s].value ELSE store
       /\ putFailed' = (putFailed \/ ~ok)
  /\ UNCHANGED <<handler, thresholdEnv, seen, dispatched, writes, overlapped, lastEdge, phase>>

PutSettle(s) == PutSettleWith(s, BOOLEAN)

\* the timer armed on a 429 fires: sendDiscordNotification is called again,
\* outside any await of the handler
TimerFire(s) ==
  /\ tick[s].timer = "armed"
  /\ tick' = [tick EXCEPT ![s].timer = "flight", ![s].retryAfter = Absent,
                          ![s].delay = Num(0),
                          ![s].chain = @ + 1,
                          ![s].late = @ \/ Ended(tick[s])]
  /\ UNCHANGED <<handler, thresholdEnv, store, seen, dispatched, writes, putFailed, overlapped, lastEdge, phase>>

\* the answer to a retry's POST: its result is dropped, a 429 arms the timer again
RetrySettle(s) ==
  /\ tick[s].timer = "flight"
  /\ \E o \in PostOutcomes, hdr \in RetryAfterHeaders :
       /\ o = "429" => tick[s].chain <= Max429
       /\ o # "429" => hdr = Absent
       /\ tick' = [tick EXCEPT ![s] = OnPostResponse(handler, tick[s], o, hdr)]
  /\ UNCHANGED <<handler, thresholdEnv, store, seen, dispatched, writes, putFailed, overlapped, lastEdge, phase>>

\* the handler has completed and the runtime ends the invocation before the
\* timer fires (nothing was passed to ctx.waitUntil)
TimerDrop(s) ==
  /\ tick[s].timer = "armed"
  /\ Ended(tick[s])
  /\ tick' = [tick EXCEPT ![s].timer = "none"]
  /\ UNCHANGED <<handler, thresholdEnv, store, seen, dispatched, writes, putFailed, overlapped, lastEdge, phase>>

Step(s) ==
  \/ BeginTick(s)
  \/ Fetch(s)
  \/ ReadStore(s)
  \/ PostSettle(s)
  \/ PutSettle(s)
  \/ TimerFire(s)
  \/ RetrySettle(s)
  \/ TimerDrop(s)

Next == \E s \in SerialSlots : Step(s)

Spec == Init /\ [][Next]_vars

----------------------------------------------------------------------------
(* Overlapping invocations: the scheduler may invoke the handler while an
   earlier invocation is still running.  Two slots; the handlers that read
   get("status") ?? "0"; credentials present; the poll fails or reads 0 W,
   0.5 W or 8 W; the webhook answers 200 or an error, or the POST throws (no
   429, so no retry timer). *)

OverlapCreds == {<<"ok", "ok", "ok">>}

OverlapResponses ==
  { Resp("exception", FALSE, "text", 0, NoReading),
    Resp("http", TRUE, "full", StatusOk, [voltage |-> 0, current |-> 80]),
    Resp("http", TRUE, "full", StatusOk, [voltage |-> 100, current |-> 5]),
    Resp("http", TRUE, "full", StatusOk, [voltage |-> 100, current |-> 80]) }

OverlapPostOutcomes == {"ok", "error", "exception"}

InitOverlap ==
  /\ Init
  /\ handler \in {"index", "p001"}

StepOverlap(s) ==
  \/ BeginTickWith(s, OverlapCreds)
  \/ FetchWith(s, OverlapResponses)
  \/ ReadStore(s)
  \/ PostSettleWith(s, OverlapPostOutcomes)
  \/ PutSettle(s)

NextOverlap == \E s \in Slots : StepOverlap(s)

SpecOverlap == InitOverlap /\ [][NextOverlap]_vars

----------------------------------------------------------------------------
(* Polls that settle: a run of the threshold handler in which, after a while
   of anything happening (missing credentials, failed and non-100 polls,
   rejected store operations), the plug answers every poll with statusCode
   100 on one side of the threshold and the store does what it is asked.
   Serial ticks; the webhook answers 200 or an error, or the POST throws. *)

LiveCreds ==
  IF phase = "any" THEN {<<"ok", "ok", "ok">>, <<"empty", "ok", "ok">>}
  ELSE {<<"ok", "ok", "ok">>}

LiveReadings ==
  { [voltage |-> 100, current |-> 5], [voltage |-> 100, current |-> 50],
    [voltage |-> 100, current |-> 80] }

\* the responses of the plug in the phase
LiveResponses ==
  IF phase = "any"
    THEN { Resp("exception", FALSE, "text", 0, NoReading),
           Resp("http", TRUE, "full", 190, [voltage |-> 100, current |-> 80]) }
         \cup { Resp("http", TRUE, "full", StatusOk, r) : r \in LiveReadings }
    ELSE { Resp("http", TRUE, "full", StatusOk, r) :
             r \in { q \in LiveReadings :
                       (phase = "high") <=>
                         (MilliWatt(q) >= MilliampsPerAmp * EffectiveThreshold(thresholdEnv)) } }

\* whether a store operation may be rejected in the phase
LiveStoreOutcomes == IF phase = "any" THEN BOOLEAN ELSE {TRUE}

\* from now on the polls succeed on one side and the store works
Settle ==
  /\ phase = "any"
  /\ phase' \in {"high", "low"}
  /\ UNCHANGED <<handler, thresholdEnv, store, tick, seen, dispatched, writes,
                 putFailed, overlapped, lastEdge>>

InitLive ==
  /\ Init
  /\ handler = "p001"

\* the steps of the invocation in a slot
StepLive(s) ==
  \/ BeginTickWith(s, LiveCreds)
  \/ FetchWith(s, LiveResponses)
  \/ ReadStoreWith(s, LiveStoreOutcomes)
  \/ PostSettleWith(s, OverlapPostOutcomes)
  \/ PutSettleWith(s, LiveStoreOutcomes)

NextLive == Settle \/ \E s \in SerialSlots : StepLive(s)

\* the cron trigger keeps firing and every awaited promise settles
SpecLive ==
  InitLive /\ [][NextLive]_vars /\ \A s \in SerialSlots : WF_vars(StepLive(s))

----------------------------------------------------------------------------
(* Vocabulary of the properties *)

\* the effective threshold of the deployment, in watts
Threshold == EffectiveThreshold(thresholdEnv)

\* the tick got a reading with status code 100 and read the store
Evaluated(t) ==
  /\ t.gets > 0
  /\ AfterFetch(ResultOf(t)) = "read"
  /\ ~t.getFailed
  /\ t.pc \in {"effects", "done", "rejected"}

\* the watt of the tick's reading, in milliwatts
TickMilliWatt(t) == MilliWatt(ResultOf(t).reading)

\* every reading evaluated so far lies on one side of the threshold
SameSide ==
  \/ \A r \in seen : MilliWatt(r) >= MilliampsPerAmp * Threshold
  \/ \A r \in seen : MilliWatt(r) < MilliampsPerAmp * Threshold

\* every tick so far that got a valid reading got the same one
ConstantReading == Cardinality(seen) <= 1

----------------------------------------------------------------------------
(* C1 (as claimed): in the threshold handler, while every evaluated reading
   stays on one side of the threshold, at most one tick dispatches the
   notification of an edge, whatever the outcomes of notifications and of
   store writes.  Violated: a rejected put leaves the stored status as it was
   and the next tick dispatches the same notification again. *)
C1_NoDuplicateNotification ==
  (handler = "p001" /\ SameSide)
    => (dispatched["start"] <= 1 /\ dispatched["stop"] <= 1)

(* C2: in the threshold handler a tick with a valid reading takes the
   Idle->Running edge iff the status it read is "0" and watt >= threshold,
   takes Running->Idle iff the status is "1" and watt < threshold, and
   otherwise starts neither a notification nor a store write. *)
C2_DecisionTable ==
  \A s \in Slots :
    LET t == tick[s]
        mw == TickMilliWatt(t)
    IN (handler = "p001" /\ Evaluated(t)) =>
         /\ t.edge = "start" <=> (t.cur = Idle /\ mw >= MilliampsPerAmp * Threshold)
         /\ t.edge = "stop" <=> (t.cur = Running /\ mw < MilliampsPerAmp * Threshold)
         /\ t.edge \in {"start", "stop"} <=> (t.post # "none" /\ t.put # "none")
         /\ t.edge = "none" => (t.pc = "done" /\ t.chain = 0)

\* C2 witness: an Idle machine starts at exactly the threshold (5 W, threshold 5)
C2_Witness ==
  \E s \in Slots :
    /\ handler = "p001" /\ Evaluated(tick[s])
    /\ TickMilliWatt(tick[s]) = MilliampsPerAmp * Threshold
    /\ tick[s].cur = Idle /\ tick[s].edge = "start"

(* C3 (as claimed): in the handlers of src/src/index.ts and of the threshold
   revision, when every evaluated reading is the same one and no store write
   was rejected, at most one transition happens over the run: at most one
   notification dispatched, at most one store write, never both edges. *)
C3_OneEdgePerCrossing ==
  (handler \in {"index", "p001"} /\ ConstantReading /\ ~putFailed)
    => /\ dispatched["start"] + dispatched["stop"] <= 1
       /\ writes <= 1

(* C4 (as claimed): in the threshold handler every POST of the notification,
   a retry after 429 included, is issued in a tick that also issues the store
   write (of a value other than the one it read), while that tick is running;
   and every store write comes with a POST. *)
C4_NotifyWithWrite ==
  \A s \in Slots :
    LET t == tick[s]
    IN handler = "p001" =>
         /\ (t.chain > 0) <=> (t.put # "none")
         /\ t.put # "none" => t.value # t.cur
         /\ ~t.late

(* C5 (as claimed): in the handlers of src/src/index.ts and of the threshold
   revision a tick that takes an edge starts both the notification and the
   store write, and the tick does not reject whatever their outcomes. *)
C5_BestEffortBoth ==
  \A s \in Slots :
    LET t == tick[s]
    IN (handler \in {"index", "p001"} /\ t.edge # "none") =>
         /\ t.post # "none" /\ t.put # "none"
         /\ t.pc # "rejected"

(* C6 (as claimed): one call of the dispatcher by the handler leads to at
   most two POSTs, whatever the webhook answers. *)
C6_AtMostOneRetry == \A s \in Slots : tick[s].chain <= 2

(* C7: a tick whose device-status result carries a status code other than
   100 (the sentinel -1, or a body with e.g. 190) issues no POST and no store
   write, and the stored status is the one the tick found; for every
   handler. *)
C7_NoActionWithoutReading ==
  \A s \in Slots :
    LET t == tick[s]
        res == ResultOf(t)
    IN (t.gets > 0 /\ ~res.threw /\ res.statusCode # StatusOk) =>
         /\ t.pc = "done"
         /\ t.edge = "none" /\ t.post = "none" /\ t.put = "none"
         /\ t.chain = 0 /\ t.timer = "none"
         /\ store = t.before

\* C7 witness: status code 190 with 100 V, 80 mA in the body, stored "0"
C7_Witness ==
  \E s \in Slots :
    /\ handler = "p001"
    /\ tick[s].pc = "done" /\ tick[s].gets > 0
    /\ tick[s].resp = Resp("http", TRUE, "full", 190, [voltage |-> 100, current |-> 80])
    /\ store = Idle

(* C8 (as claimed): the scheduled handler never rejects, whichever
   collaborator fails. *)
C8_TickNeverRejects ==
  \A s \in Slots :
    handler \in {"index", "p001"} => tick[s].pc # "rejected"

(* C9 (as claimed): a tick with a missing credential ends without a
   device-status request, a store access or a notification; with all
   credentials present it goes on to sign and fetch. *)
C9_MissingCredentialsAbort ==
  \A s \in Slots :
    LET t == tick[s]
    IN (handler \in {"index", "p001"} /\ t.pc # "idle") =>
         IF {t.tok, t.sec, t.prx} # {"ok"}
           THEN /\ t.gets = 0 /\ t.pc \notin {"read", "effects"}
                /\ t.post = "none" /\ t.put = "none" /\ ~t.getFailed
           ELSE t.pc = "sign" \/ t.gets = 1

(* C10 (as claimed): the device-status client (of the threshold revision and
   of the second handler of part_000) issues one GET per tick, never throws,
   and turns a transport exception, a non-success status or an unparsable
   body into the sentinel with status code -1 and zero voltage and current. *)
C10_ClientNeverThrows ==
  \A s \in Slots :
    LET t == tick[s]
        res == ResultOf(t)
    IN handler \in {"p000b", "p001"} =>
         /\ t.gets <= 1
         /\ t.gets = 1 =>
              /\ ~res.threw
              /\ (t.resp.kind = "exception" \/ ~t.resp.ok \/ t.resp.body = "text")
                   => (res.statusCode = StatusFailed /\ res.reading = NoReading)

(* C11 (as claimed): for every handler, a tick that finds the status key
   unset and gets a valid reading treats the machine as Idle: it takes the
   Idle->Running edge (start text POSTed, "1" handed to put) exactly when the
   handler's start condition holds of the reading, and otherwise does
   nothing. *)
C11_AbsentIsIdle ==
  \A s \in Slots :
    LET t == tick[s]
    IN (Evaluated(t) /\ t.before = NoValue) =>
         IF Decide(handler, Idle, TickMilliWatt(t), Threshold) = "start"
           THEN /\ t.edge = "start" /\ t.msg = StartMessage
                /\ t.value = Running /\ t.chain >= 1
           ELSE t.edge = "none" /\ t.chain = 0 /\ t.put = "none"

(* C12: in the handlers of src/src/index.ts and of the threshold revision a
   tick on the Idle->Running edge read "0", POSTs the start text and hands "1"
   to put; a tick on the Running->Idle edge read "1", POSTs the finished text
   and hands "0" to put; once the put has succeeded the stored value is the
   new status.  With threshold 5: stored "0" and 100 V, 80 mA start; stored
   "1" and 100 V, 5 mA stop. *)
C12_EdgeEffects ==
  \A s \in Slots :
    LET t == tick[s]
    IN handler \in {"index", "p001"} =>
         /\ t.edge = "start" =>
              /\ t.cur = Idle /\ t.msg = StartMessage /\ t.value = Running
              /\ t.chain >= 1 /\ t.put # "none"
         /\ t.edge = "stop" =>
              /\ t.cur = Running /\ t.msg = FinishedMessage /\ t.value = Idle
              /\ t.chain >= 1 /\ t.put # "none"
         /\ t.put = "ok" => store = t.value
         /\ (handler = "p001" /\ Threshold = 5 /\ Evaluated(t)) =>
              /\ (t.cur = Idle /\ ResultOf(t).reading = [voltage |-> 100, current |-> 80])
                   => t.edge = "start"
              /\ (t.cur = Running /\ ResultOf(t).reading = [voltage |-> 100, current |-> 5])
                   => t.edge = "stop"

\* C12 witness: stored "1", 100 V and 5 mA, threshold 5: the finished text was
\* POSTed and the put of "0" succeeded
C12_Witness ==
  \E s \in Slots :
    /\ handler = "p001" /\ Threshold = 5
    /\ tick[s].before = Running
    /\ ResultOf(tick[s]).reading = [voltage |-> 100, current |-> 5]
    /\ tick[s].edge = "stop" /\ tick[s].msg = FinishedMessage
    /\ tick[s].post = "ok" /\ tick[s].put = "ok" /\ store = Idle

(* C13: in the threshold handler a tick that reads the store and finds
   Running with watt >= threshold, or Idle (or nothing) with watt < threshold,
   starts no POST and no store write, and its step leaves the stored status
   and the counts of dispatched notifications and of store writes as they
   were; so does any number of such ticks in a row. *)
C13_NoChangeNoEffect ==
  [][\A s \in Slots :
       LET mw == TickMilliWatt(tick[s])
       IN ( /\ handler = "p001"
            /\ tick[s].pc = "read" /\ tick'[s].pc # "read" /\ ~tick'[s].getFailed
            /\ \/ store = Running /\ mw >= MilliampsPerAmp * Threshold
               \/ store \in {Idle, NoValue} /\ mw < MilliampsPerAmp * Threshold )
          => /\ store' = store /\ dispatched' = dispatched /\ writes' = writes
             /\ tick'[s].pc = "done" /\ tick'[s].edge = "none"
             /\ tick'[s].post = "none" /\ tick'[s].put = "none"
             /\ tick'[s].chain = 0 /\ tick'[s].timer = "none"]_vars

\* C13 witness: a Running machine at exactly the threshold: the tick is over,
\* nothing was started and the store still holds "1"
C13_Witness ==
  \E s \in Slots :
    /\ handler = "p001" /\ Evaluated(tick[s]) /\ tick[s].pc = "done"
    /\ tick[s].cur = Running /\ tick[s].before = Running
    /\ TickMilliWatt(tick[s]) = MilliampsPerAmp * Threshold
    /\ tick[s].edge = "none" /\ tick[s].chain = 0 /\ store = Running

\* a numeric string: one or more decimal digits and nothing else
IsNumericString(text) ==
  text # <<>> /\ \A i \in 1..Len(text) : IsDigit(text[i])

\* the threshold the documentation promises for a configured value: the
\* integer of a numeric string, 5 for anything else or for none
PromisedThreshold(env) ==
  IF env.present /\ IsNumericString(env.text)
    THEN DigitsValue(env.text, 0)
    ELSE DefaultThreshold

(* C14 (as claimed): the threshold handler decides every evaluated tick with
   the integer of WASHER_START_THRESHOLD when that is a numeric string and
   with 5 when it is unset, empty, alphabetic or digits followed by other
   characters; the tick does not reject on account of the threshold. *)
C14_ThresholdFallback ==
  \A s \in Slots :
    LET t == tick[s]
        mw == TickMilliWatt(t)
        T == PromisedThreshold(thresholdEnv)
    IN (handler = "p001" /\ Evaluated(t)) =>
         /\ t.edge = "start" <=> (t.cur = Idle /\ mw >= MilliampsPerAmp * T)
         /\ t.edge = "stop" <=> (t.cur = Running /\ mw < MilliampsPerAmp * T)
         /\ t.pc # "rejected"

(* C15 (as claimed): whenever a 429 has armed the retry timer (threshold
   handler and second handler of part_000), the delay given to the timer is
   the Retry-After header's seconds in milliseconds when the header is a
   number, and exactly 1000 ms when the header is absent or does not parse;
   it is never zero and never not-a-number. *)
C15_RetryDelay ==
  \A s \in Slots :
    LET t == tick[s]
        h == t.retryAfter
    IN (handler \in {"p000b", "p001"} /\ t.timer = "armed") =>
         /\ t.delay = IF h.present /\ IsNumericString(h.text)
                        THEN Num(DigitsValue(h.text, 0) * MsPerSecond)
                        ELSE Num(MsPerSecond)
         /\ ~t.delay.nan /\ t.delay.val > 0

(* C16 (as claimed): in the threshold handler, once the handler of a tick
   that took an edge has completed, its notification POST and its store
   write have settled, no retry timer of the tick is armed, no retry POST is
   in flight, and none was issued after the completion. *)
C16_TickAwaitsEffects ==
  \A s \in Slots :
    LET t == tick[s]
    IN (handler = "p001" /\ Ended(t) /\ t.edge # "none") =>
         /\ t.post \notin {"none", "flight"}
         /\ t.put \notin {"none", "flight"}
         /\ t.timer = "none"
         /\ ~t.late

\* every reading evaluated so far lets the handler's conditions take the start
\* edge only, or every one lets them take the stop edge only: the run holds at
\* most one crossing
ClearSide ==
  \/ \A r \in seen :
       /\ Decide(handler, Idle, MilliWatt(r), Threshold) = "start"
       /\ Decide(handler, Running, MilliWatt(r), Threshold) = "none"
  \/ \A r \in seen :
       /\ Decide(handler, Running, MilliWatt(r), Threshold) = "stop"
       /\ Decide(handler, Idle, MilliWatt(r), Threshold) = "none"

(* C17: with invocations that may overlap (handlers of src/src/index.ts and
   of the threshold revision), as long as no tick began while another was
   unfinished and no store write was rejected, at most one tick dispatches the
   notification of an edge for one crossing; the state in which two ticks
   have dispatched the same edge is reached only with overlap (C17_Race). *)
C17_SerialNoDoubleDispatch ==
  (handler \in {"index", "p001"} /\ ~overlapped /\ ~putFailed /\ ClearSide)
    => (dispatched["start"] <= 1 /\ dispatched["stop"] <= 1)

\* C17 witness, the race: two overlapping ticks both read "0" before either
\* write was stored, both took the start edge, two notifications are
\* dispatched for the one crossing and both puts are still in flight
C17_Race ==
  /\ handler = "p001" /\ overlapped /\ ~putFailed /\ ClearSide
  /\ tick[1].cur = Idle /\ tick[2].cur = Idle
  /\ tick[1].edge = "start" /\ tick[2].edge = "start"
  /\ tick[1].put = "flight" /\ tick[2].put = "flight"
  /\ dispatched["start"] = 2

(* C18: in the handlers of src/src/index.ts and of the threshold revision,
   from a status key that is unset, "0" or "1", whatever fails, the key stays
   unset, "0" or "1"; every put a tick issues carries "0" or "1", and a
   value other than the status the tick read. *)
C18_PersistedValue ==
  handler \in {"index", "p001"} =>
    /\ store \in {NoValue, Idle, Running}
    /\ \A s \in Slots :
         LET t == tick[s]
         IN t.put # "none" =>
              /\ t.value \in {Idle, Running}
              /\ t.cur \in {Idle, Running}
              /\ t.value # t.cur

\* C18 witness: a tick found the key unset, read it as "0", wrote "1", and the
\* key now holds "1"
C18_Witness ==
  \E s \in Slots :
    /\ handler = "p001"
    /\ tick[s].before = NoValue /\ tick[s].cur = Idle
    /\ tick[s].put = "ok" /\ tick[s].value = Running /\ store = Running

(* C19: under serial ticks (handlers of src/src/index.ts and of the threshold
   revision), as long as no store write was rejected, every step in which a
   tick dispatches a notification dispatches the edge other than the one
   dispatched last, and the first one dispatched is start when the key is
   unset or "0": start, finished, start, ...  (The POSTs a retry timer
   repeats are not dispatches of a tick.) *)
C19_Alternation ==
  [][\A s \in Slots :
       ( /\ handler \in {"index", "p001"}
         /\ ~putFailed
         /\ tick[s].pc = "read" /\ tick'[s].pc = "effects" )
       => /\ tick'[s].edge \in {"start", "stop"}
          /\ tick'[s].edge # lastEdge
          /\ lastEdge' = tick'[s].edge
          /\ (lastEdge = "none" /\ store \in {NoValue, Idle})
               => tick'[s].edge = "start"]_vars

\* C19 witness: start, finished and start again have been dispatched, with no
\* store write rejected
C19_Witness ==
  /\ handler = "p001" /\ ~putFailed
  /\ dispatched["start"] = 2 /\ dispatched["stop"] = 1
  /\ lastEdge = "start"
  /\ \E s \in Slots : tick[s].edge = "start" /\ tick[s].put = "ok"

(* C20: in the threshold handler under serial ticks and fairness, once every
   poll succeeds with watt >= threshold and the store operations succeed, a
   status key that is not "1" leads to the key holding "1" with the start
   notification dispatched last; symmetrically, with watt < threshold, a key
   holding "1" leads to "0" with the finished notification dispatched last.
   Whatever polls failed before, the crossing is caught up. *)
C20_CatchUp ==
  /\ (phase = "high" /\ store # Running) ~> (store = Running /\ lastEdge = "start")
  /\ (phase = "low" /\ store = Running) ~> (store = Idle /\ lastEdge = "stop")

\* C20 witness: the polls have settled above the threshold, the tick that
\* found the key unset has started the machine: "1" is stored
C20_Witness ==
  \E s \in Slots :
    /\ phase = "high"
    /\ tick[s].before = NoValue /\ tick[s].edge = "start" /\ tick[s].put = "ok"
    /\ store = Running /\ lastEdge = "start"

\* the invocation of the slot is over, it took the edge, stored the new status,
\* and its notification failed: an error response or a transport exception
\* (not a 429)
LostNotification(t, edge) ==
  /\ Free(t) /\ Ended(t)
  /\ t.edge = edge
  /\ t.post \in {"error", "exception"}
  /\ t.put = "ok"

(* C21: in the threshold handler with ticks that did not overlap, once a tick
   has stored the new status of an edge while its notification failed (an
   error response or a transport exception, not a 429), no later tick
   dispatches the notification of that edge as long as every evaluated
   reading stays on one side of the threshold: the failed notification is
   not made up. *)
C21_FailedNotificationNotMadeUp ==
  [][\A s \in Slots : \A o \in Slots \ {s} :
       ( /\ handler = "p001" /\ ~overlapped'
         /\ LostNotification(tick[o], tick'[s].edge)
         /\ SameSide' )
       => ~(tick[s].pc = "read" /\ tick'[s].pc = "effects")]_vars

\* C21 witness: the start notification of a tick threw while "1" was stored; a
\* later tick read a watt at or above the threshold again, found "1" and
\* dispatched nothing
C21_Witness ==
  \E s \in Slots : \E o \in Slots \ {s} :
    /\ handler = "p001" /\ ~overlapped /\ SameSide
    /\ LostNotification(tick[o], "start") /\ tick[o].post = "exception"
    /\ dispatched["start"] = 1 /\ dispatched["stop"] = 0
    /\ Evaluated(tick[s]) /\ tick[s].pc = "done"
    /\ tick[s].before = Running /\ tick[s].cur = Running /\ tick[s].edge = "none"
    /\ TickMilliWatt(tick[s]) >= MilliampsPerAmp * Threshold
    /\ store = Running

====
